---- MODULE Spec2Model ----
(***************************************************************************)
(* Atelier mobile sketching app: the top-level coordinator (App.tsx) and   *)
(* the canvas editor (components/CanvasView.tsx).                          *)
(*                                                                         *)
(* React semantics used throughout: an event handler runs against the      *)
(* state of the latest render, and a re-render happens between two events. *)
(* A callback created in a render (image onload, setTimeout) keeps the     *)
(* values it closed over in that render; functional updaters               *)
(* (setX(prev => ...)) see the current state.                              *)
(*                                                                         *)
(* The raster buffer is abstracted to NumCells cells along the x axis;     *)
(* a pixel is [img, ink]: img = an opaque raster pixel drawn by drawImage, *)
(* ink = accumulated black coverage 0..MaxInk.                             *)
(***************************************************************************)
EXTENDS Integers, Sequences, FiniteSets, TLC

\* ---------------------------------------------------------------- bounds
NumCells == 2
MaxInk == 2
MaxCommits == 3
MaxCreated == 1
MaxSyncs == 2
MaxLoads == 1

\* ------------------------------------------------------ program constants
BrushMin == 1
BrushMax == 50
OpacityMin == 1
OpacityMax == 100
InitialBrushSize == 5
InitialOpacity == 100
TrackHeight == 160
CellWidth == 30
CanvasInset == 16

Cells == 1..NumCells
Pressures2 == {0, 1, 2}
SizeYs == {0 - 10}
OpacityYs == {170}

Local == "Local Sketch"
PendingSync == "Ready for Atelier Sync"
Synced == "Synced"

VARIABLES
  view, projects, currentProject, currentSketch, nextId, timers,
  effectPending, containerSized, isInitialized, context, canvas, gco,
  history, historyStep, isDrawing, lastPoint, tool, brushSize, opacity,
  syncing, loads, pressed,
  lastOp, nCommits, nSeeds, nStrokes, nImports, strokesOnly, nSyncs, syncLog, nInits,
  captureFails, place, pointer

appVars == <<view, projects, currentProject, currentSketch, nextId>>
histVars == <<history, historyStep, nCommits>>
toolVars == <<tool, brushSize, opacity>>
syncVars == <<timers, syncing, nSyncs, syncLog>>
ghostCnt == <<nSeeds, nStrokes, nImports, strokesOnly, nInits>>
vars == <<view, projects, currentProject, currentSketch, nextId, timers,
          effectPending, containerSized, isInitialized, context, canvas, gco,
          history, historyStep, isDrawing, lastPoint, tool, brushSize, opacity,
          syncing, loads, pressed,
          lastOp, nCommits, nSeeds, nStrokes, nImports, strokesOnly, nSyncs, syncLog,
          nInits, captureFails, place, pointer>>

\* ------------------------------------------------------------ raster model
Min(a, b) == IF a < b THEN a ELSE b
Max(a, b) == IF a > b THEN a ELSE b
Abs(a) == IF a < 0 THEN 0 - a ELSE a

Transparent == [img |-> FALSE, ink |-> 0]
ImagePixel == [img |-> TRUE, ink |-> 0]
Blank == [c \in Cells |-> Transparent]
NoThumbnail == << >>

\* source-over of black at alpha opacity/100 on one pixel
PaintPixel(p, op) ==
  IF op = OpacityMax THEN [img |-> FALSE, ink |-> MaxInk]
  ELSE [p EXCEPT !.ink = Min(MaxInk, p.ink + 1)]

\* one pixel of a fill/stroke under the context's composite operation
CompositePixel(p, isEraser, op) ==
  IF isEraser THEN Transparent ELSE PaintPixel(p, op)

\* cells touched by a round mark of diameter d2/2 centred on cell x
CoveredBy(x, d2) == {c \in Cells : 4 * Abs(c - x) * CellWidth <= d2}

\* cells touched by a round-capped segment from cell a to cell b
SegmentCells(a, b, d2) ==
  {c \in Cells : \E m \in Min(a, b)..Max(a, b) : c \in CoveredBy(m, d2)}

\* drawImage of an opaque raster under composite operation op
DrawImagePixel(p, q, op) ==
  IF op = "destination-out" THEN Transparent ELSE q

\* handleSave: white background under the buffer, encoded as a data URL
Flatten(buf) == [c \in Cells |-> [img |-> TRUE, ink |-> buf[c].ink]]

\* prev.slice(0, n)
Slice(s, n) == SubSeq(s, 1, Min(Max(n, 0), Len(s)))

\* exact fractions n/d with d > 0, for the numbers of the placement
RECURSIVE GCD(_, _)
GCD(a, b) == IF b = 0 THEN a ELSE GCD(b, a % b)
Rat(n, d) == LET g == GCD(Abs(n), d) IN [n |-> n \div g, d |-> d \div g]
RMul(a, b) == Rat(a.n * b.n, a.d * b.d)
RSub(a, b) == Rat(a.n * b.d - b.n * a.d, a.d * b.d)
RAdd(a, b) == Rat(a.n * b.d + b.n * a.d, a.d * b.d)
RLe(a, b) == a.n * b.d <= b.n * a.d
REq(a, b) == a.n * b.d = b.n * a.d
RMin(a, b) == IF RLe(a, b) THEN a ELSE b
Margin == Rat(8, 10)

RDiv(a, b) == Rat(a.n * b.d, a.d * b.n)

\* no pointer-down drawn yet, on a display of device-pixel ratio dpr
NoHit(dpr) == [dpr |-> dpr, down |-> FALSE, off |-> 0, logical |-> 0, shown |-> Rat(0, 1)]

\* no image placed yet
NoRect == [cw |-> 0, ch |-> 0, x |-> Rat(0, 1), y |-> Rat(0, 1), w |-> Rat(0, 1),
           h |-> Rat(0, 1), drawn |-> FALSE]

\* ------------------------------------------------------------- App.tsx
INITIAL_PROJECTS ==
  << [id |-> "p1", name |-> "Autumn Collection 24",
      sketches |->
        << [id |-> "s1", title |-> "Silhouette Study #1", createdAt |-> "2023-10-24",
            thumbnail |-> NoThumbnail, status |-> PendingSync],
           [id |-> "s2", title |-> "Fabric Drape Concept", createdAt |-> "2023-10-25",
            thumbnail |-> NoThumbnail, status |-> Local] >>],
     [id |-> "p2", name |-> "Couture Ideas", sketches |-> << >>] >>

ProjectIds == {"p1", "p2", "p9"}
NoProject == "null"
NoSketch == [id |-> "null", title |-> "", createdAt |-> "", thumbnail |-> NoThumbnail,
             status |-> Local]

MapSeq(s, F(_)) == [i \in 1..Len(s) |-> F(s[i])]

\* the status handleSyncSketch writes
SyncStatusMutant == Local
SyncStatus == PendingSync

\* as handleSaveSketch, replacing the thumbnail of every sketch of the project
handleSaveSketchMutant(projs, curProject, sketchId, thumbnail) ==
  IF curProject = NoProject THEN projs
  ELSE LET updSketch(s) == [s EXCEPT !.thumbnail = thumbnail]
           updProject(p) == IF p.id = curProject
                            THEN [p EXCEPT !.sketches = MapSeq(p.sketches, updSketch)]
                            ELSE p
       IN MapSeq(projs, updProject)

\* handleSaveSketch: the project list with the sketch's thumbnail replaced
handleSaveSketch(projs, curProject, sketchId, thumbnail) ==
  IF curProject = NoProject THEN projs
  ELSE LET updSketch(s) == IF s.id = sketchId THEN [s EXCEPT !.thumbnail = thumbnail] ELSE s
           updProject(p) == IF p.id = curProject
                            THEN [p EXCEPT !.sketches = MapSeq(p.sketches, updSketch)]
                            ELSE p
       IN MapSeq(projs, updProject)

\* handleSyncSketch: the project list with the sketch's status replaced
handleSyncSketch(projs, curProject, sketchId) ==
  IF curProject = NoProject THEN projs
  ELSE LET updSketch(s) == IF s.id = sketchId THEN [s EXCEPT !.status = SyncStatus] ELSE s
           updProject(p) == IF p.id = curProject
                            THEN [p EXCEPT !.sketches = MapSeq(p.sketches, updSketch)]
                            ELSE p
       IN MapSeq(projs, updProject)

\* ------------------------------------------------- CanvasView.tsx: state
NoPoint == 0
Today == "today"
Mounted == view = "CANVAS" /\ currentSketch # NoSketch
\* the editor has rendered and its mount effect has run
Ready == Mounted /\ ~effectPending
\* the canvas is laid out with a positive size, so pointer events can hit it
Hittable == Ready /\ containerSized
\* the "Syncing to Atelier" overlay is not covering the editor
Uncovered == ~syncing

\* useState/useRef initial values of a newly mounted CanvasView
FreshEditor ==
  /\ isInitialized' = FALSE
  /\ context' = FALSE
  /\ canvas' = Blank
  /\ gco' = "source-over"
  /\ history' = << >>
  /\ historyStep' = 0 - 1
  /\ isDrawing' = FALSE
  /\ lastPoint' = NoPoint
  /\ tool' = "brush"
  /\ brushSize' = InitialBrushSize
  /\ opacity' = InitialOpacity
  /\ syncing' = FALSE
  /\ loads' = << >>
  /\ pressed' = FALSE
  /\ nCommits' = 0
  /\ nSeeds' = 0
  /\ nStrokes' = 0
  /\ nImports' = 0
  /\ strokesOnly' = TRUE
  /\ nInits' = 0
  /\ place' = [place EXCEPT !.rect = NoRect]
  /\ pointer' = NoHit(pointer.dpr)

\* unmounting: callbacks of the old editor can no longer reach a mounted one
Disown(ts) == [i \in 1..Len(ts) |-> [ts[i] EXCEPT !.live = FALSE]]

\* the canvas has no width or height, or getImageData throws: decided by the
\* platform (allocation of the snapshot), not by the editor
CaptureFails == captureFails

\* as saveHistory, with setHistoryStep outside the try block
saveHistoryMutant(capturedStep, imageData) ==
  IF CaptureFails
  THEN /\ historyStep' = historyStep + 1
       /\ UNCHANGED <<history, nCommits>>
  ELSE /\ history' = Append(Slice(history, capturedStep + 1), imageData)
       /\ historyStep' = historyStep + 1
       /\ nCommits' = nCommits + 1

\* saveHistory as created in a render whose historyStep was capturedStep
saveHistory(capturedStep, imageData) ==
  IF CaptureFails
  THEN UNCHANGED histVars
  ELSE /\ history' = Append(Slice(history, capturedStep + 1), imageData)
       /\ historyStep' = historyStep + 1
       /\ nCommits' = nCommits + 1

\* as initCanvas, without the isInitializedRef guard
initCanvasMutant ==
  IF ~containerSized
  THEN UNCHANGED <<isInitialized, context, canvas, gco, loads, histVars, nSeeds, nInits>>
  ELSE /\ isInitialized' = TRUE
       /\ nInits' = nInits + 1
       /\ context' = TRUE
       /\ canvas' = Blank
       /\ gco' = "source-over"
       /\ IF currentSketch.thumbnail # NoThumbnail
          THEN /\ loads' = Append(loads, [kind |-> "seed", step |-> 0 - 1])
               /\ UNCHANGED <<histVars, nSeeds>>
          ELSE /\ saveHistory(0 - 1, Blank)
               /\ nSeeds' = nSeeds + 1
               /\ UNCHANGED loads

\* as initCanvas, without the test of the container's width and height
initCanvasMutantArea ==
  IF isInitialized
  THEN UNCHANGED <<isInitialized, context, canvas, gco, loads, histVars, nSeeds, nInits>>
  ELSE /\ isInitialized' = TRUE
       /\ nInits' = nInits + 1
       /\ context' = TRUE
       /\ canvas' = Blank
       /\ gco' = "source-over"
       /\ IF currentSketch.thumbnail # NoThumbnail
          THEN /\ loads' = Append(loads, [kind |-> "seed", step |-> 0 - 1])
               /\ UNCHANGED <<histVars, nSeeds>>
          ELSE /\ saveHistory(0 - 1, Blank)
               /\ nSeeds' = nSeeds + 1
               /\ UNCHANGED loads

\* initCanvas of the mount effect (closure of the first render: historyStep = -1)
initCanvas ==
  IF ~containerSized \/ isInitialized
  THEN UNCHANGED <<isInitialized, context, canvas, gco, loads, histVars, nSeeds, nInits>>
  ELSE /\ isInitialized' = TRUE
       /\ nInits' = nInits + 1
       /\ context' = TRUE
       /\ canvas' = Blank
       /\ gco' = "source-over"
       /\ IF currentSketch.thumbnail # NoThumbnail
          THEN /\ loads' = Append(loads, [kind |-> "seed", step |-> 0 - 1])
               /\ UNCHANGED <<histVars, nSeeds>>
          ELSE /\ saveHistory(0 - 1, Blank)
               /\ nSeeds' = nSeeds + 1
               /\ UNCHANGED loads

\* ------------------------------------------------ CanvasView.tsx: drawing
\* getCoordinates: x = event.clientX - rect.left
getCoordinates(clientX, rectLeft) == clientX - rectLeft

\* canvas.width = container.clientWidth * dpr, stored as an integer
BackingWidth(containerW, dpr) == (containerW * dpr.n) \div dpr.d

\* the width of the buffer in the units of the context after ctx.scale(dpr, dpr)
LogicalWidth(containerW, dpr) == RDiv(Rat(BackingWidth(containerW, dpr), 1), dpr)

\* the width at which the canvas element is displayed: calc(100% - 2rem)
DisplayedWidth(containerW) == Max(0, containerW - 2 * CanvasInset)

\* the offset from the canvas's left edge at which logical position lx is shown
ShownAt(lx, containerW, dpr) ==
  RDiv(RMul(Rat(lx, 1), Rat(DisplayedWidth(containerW), 1)), LogicalWidth(containerW, dpr))

\* a pointer-down at offset off from the canvas's left edge, the canvas being
\* inset by CanvasInset in a container at the left edge of the viewport
PointerDown(dpr, containerW, off) ==
  LET lx == getCoordinates(CanvasInset + off, CanvasInset)
  IN [dpr |-> dpr, down |-> TRUE, off |-> off, logical |-> lx,
      shown |-> ShownAt(lx, containerW, dpr)]

\* event.pressure || 0.5, in halves
EffPressure2(p2) == IF p2 = 0 THEN 1 ELSE p2
CompositeOf(t) == IF t = "eraser" THEN "destination-out" ELSE "source-over"
\* twice the diameter of the initial dot / of a segment
DotSize2(t, size) == IF t = "eraser" THEN 4 * size ELSE 2 * size
LineWidth2(t, size, p2) == IF t = "eraser" THEN 4 * size ELSE size * (2 + EffPressure2(p2))

Mark(buf, cells, t, op) ==
  [c \in Cells |-> IF c \in cells THEN CompositePixel(buf[c], t = "eraser", op) ELSE buf[c]]

\* onPointerDown
startDrawing(x) ==
  /\ UNCHANGED <<captureFails, place>>
  /\ pointer' = IF context THEN PointerDown(pointer.dpr, place.W, x * CellWidth) ELSE pointer
  /\ Hittable /\ Uncovered
  /\ ~pressed /\ nStrokes < MaxCommits
  /\ pressed' = TRUE
  /\ isDrawing' = TRUE
  /\ lastPoint' = x
  /\ IF context
     THEN /\ canvas' = Mark(canvas, CoveredBy(x, DotSize2(tool, brushSize)), tool, opacity)
          /\ gco' = CompositeOf(tool)
     ELSE UNCHANGED <<canvas, gco>>
  /\ lastOp' = "input"
  /\ UNCHANGED <<appVars, syncVars, effectPending, containerSized, isInitialized, context,
                 histVars, toolVars, loads, ghostCnt>>

\* onPointerMove
draw(x, p2) ==
  /\ UNCHANGED <<captureFails, place, pointer>>
  /\ Ready
  /\ IF ~isDrawing \/ ~context \/ lastPoint = NoPoint
     THEN UNCHANGED <<canvas, gco, lastPoint>>
     ELSE /\ canvas' = Mark(canvas, SegmentCells(lastPoint, x, LineWidth2(tool, brushSize, p2)),
                            tool, opacity)
          /\ gco' = CompositeOf(tool)
          /\ lastPoint' = x
  /\ lastOp' = "input"
  /\ UNCHANGED <<appVars, syncVars, effectPending, containerSized, isInitialized, context,
                 histVars, isDrawing, toolVars, loads, pressed, ghostCnt>>

\* onPointerUp / onPointerLeave
stopDrawing(ev) ==
  /\ UNCHANGED <<captureFails, place, pointer>>
  /\ Ready
  /\ pressed = (ev = "pointerup")
  /\ pressed' = FALSE
  /\ IF isDrawing /\ context
     THEN /\ nCommits < MaxCommits
          /\ isDrawing' = FALSE
          /\ lastPoint' = NoPoint
          /\ saveHistory(historyStep, canvas)
     ELSE UNCHANGED <<isDrawing, lastPoint, histVars>>
  /\ nStrokes' = IF ev = "pointerup" THEN nStrokes + 1 ELSE nStrokes
  /\ lastOp' = ev
  /\ UNCHANGED <<appVars, syncVars, effectPending, containerSized, isInitialized, context,
                 canvas, gco, toolVars, loads, nSeeds, nImports, strokesOnly, nInits>>

\* ---------------------------------------------- CanvasView.tsx: undo/redo
\* history[i] of the code (0-based); reading past the end gives undefined
Defined(h, i) == 0 <= i /\ i < Len(h)

\* handleUndo on (buffer, history, position): putImageData(undefined) throws
\* before setHistoryStep is reached
UndoResult(buf, h, step, ctx) ==
  IF step > 0 /\ ctx /\ Defined(h, step - 1)
  THEN [canvas |-> h[step], historyStep |-> step - 1]
  ELSE [canvas |-> buf, historyStep |-> step]

RedoResultMutant(buf, h, step, ctx) ==
  IF step < Len(h) - 1 /\ ctx /\ Defined(h, step + 1)
  THEN [canvas |-> h[step + 1], historyStep |-> step + 1]
  ELSE [canvas |-> buf, historyStep |-> step]

\* handleRedo on (buffer, history, position)
RedoResult(buf, h, step, ctx) ==
  IF step < Len(h) - 1 /\ ctx /\ Defined(h, step + 1)
  THEN [canvas |-> h[step + 2], historyStep |-> step + 1]
  ELSE [canvas |-> buf, historyStep |-> step]

handleUndo ==
  /\ UNCHANGED <<captureFails, place, pointer>>
  /\ Ready
  /\ LET r == UndoResult(canvas, history, historyStep, context)
     IN /\ canvas' = r.canvas
        /\ historyStep' = r.historyStep
        /\ lastOp' = IF r.historyStep # historyStep THEN "undo" ELSE "input"
  /\ strokesOnly' = FALSE
  /\ UNCHANGED <<appVars, syncVars, effectPending, containerSized, isInitialized, context,
                 gco, history, nCommits, isDrawing, lastPoint, toolVars, loads, pressed,
                 nSeeds, nStrokes, nImports, nInits>>

handleRedo ==
  /\ UNCHANGED <<captureFails, place, pointer>>
  /\ Ready
  /\ LET r == RedoResult(canvas, history, historyStep, context)
     IN /\ canvas' = r.canvas
        /\ historyStep' = r.historyStep
        /\ lastOp' = IF r.historyStep # historyStep THEN "redo" ELSE "input"
  /\ strokesOnly' = FALSE
  /\ UNCHANGED <<appVars, syncVars, effectPending, containerSized, isInitialized, context,
                 gco, history, nCommits, isDrawing, lastPoint, toolVars, loads, pressed,
                 nSeeds, nStrokes, nImports, nInits>>

\* --------------------------------------- CanvasView.tsx: import and export
\* <input type="file"> onChange with a file chosen
handleImageImport ==
  /\ UNCHANGED <<captureFails, place, pointer>>
  /\ Ready /\ Uncovered
  /\ IF context
     THEN /\ Len(loads) < MaxLoads /\ nImports < MaxCommits
          /\ loads' = Append(loads, [kind |-> "import", step |-> historyStep])
     ELSE UNCHANGED loads
  /\ strokesOnly' = FALSE
  /\ lastOp' = "input"
  /\ UNCHANGED <<appVars, syncVars, effectPending, containerSized, isInitialized, context,
                 canvas, gco, histVars, isDrawing, lastPoint, toolVars, pressed,
                 nSeeds, nStrokes, nImports, nInits>>

RemoveAt(s, i) == SubSeq(s, 1, i - 1) \o SubSeq(s, i + 1, Len(s))

\* containerRef.current.clientWidth / clientHeight at the time of the load
ContainerW == IF containerSized THEN place.W ELSE 0
ContainerH == IF containerSized THEN place.H ELSE 0

\* as Placement, with the offsets not halved
PlacementMutant(containerW, containerH, imgWidth, imgHeight) ==
  LET scale == RMul(RMin(Rat(containerW, imgWidth), Rat(containerH, imgHeight)), Margin)
      w == RMul(Rat(imgWidth, 1), scale)
      h == RMul(Rat(imgHeight, 1), scale)
      x == RSub(Rat(containerW, 1), w)
      y == RSub(Rat(containerH, 1), h)
  IN [cw |-> containerW, ch |-> containerH, x |-> x, y |-> y, w |-> w, h |-> h,
      drawn |-> TRUE]

\* the arguments of drawImage(img, x, y, w, h) computed by the import's onload
Placement(containerW, containerH, imgWidth, imgHeight) ==
  LET scale == RMul(RMin(Rat(containerW, imgWidth), Rat(containerH, imgHeight)), Margin)
      w == RMul(Rat(imgWidth, 1), scale)
      h == RMul(Rat(imgHeight, 1), scale)
      x == RMul(RSub(Rat(containerW, 1), w), Rat(1, 2))
      y == RMul(RSub(Rat(containerH, 1), h), Rat(1, 2))
  IN [cw |-> containerW, ch |-> containerH, x |-> x, y |-> y, w |-> w, h |-> h,
      drawn |-> TRUE]

\* drawImage(img, x, y, w, h): nothing is drawn when the container has no area
DrawImage(buf, img, op) ==
  IF containerSized
  THEN [c \in Cells |-> DrawImagePixel(buf[c], img[c], op)]
  ELSE buf

ImportedImage == [c \in Cells |-> ImagePixel]

\* as imgOnload, without resetting globalCompositeOperation before drawImage
imgOnloadMutant(i) ==
  /\ UNCHANGED <<captureFails, pointer>>
  /\ Mounted /\ i \in 1..Len(loads)
  /\ nCommits < MaxCommits
  /\ LET ld == loads[i]
         drawn == DrawImage(canvas, IF ld.kind = "seed" THEN currentSketch.thumbnail
                                    ELSE ImportedImage, gco)
     IN /\ canvas' = drawn
        /\ gco' = gco
        /\ saveHistory(ld.step, drawn)
        /\ nImports' = IF ld.kind = "import" THEN nImports + 1 ELSE nImports
        /\ nSeeds' = IF ld.kind = "seed" THEN nSeeds + 1 ELSE nSeeds
        /\ lastOp' = IF ld.kind = "seed" THEN "seedload" ELSE "importload"
        /\ place' = IF ld.kind = "seed" THEN place
                    ELSE [place EXCEPT !.rect = Placement(ContainerW, ContainerH,
                                                          place.iw, place.ih)]
  /\ loads' = RemoveAt(loads, i)
  /\ UNCHANGED <<appVars, syncVars, effectPending, containerSized, isInitialized, context,
                 isDrawing, lastPoint, toolVars, pressed, nStrokes, strokesOnly, nInits>>

\* img.onload of the thumbnail seed or of an imported file
imgOnload(i) ==
  /\ UNCHANGED <<captureFails, pointer>>
  /\ Mounted /\ i \in 1..Len(loads)
  /\ nCommits < MaxCommits
  /\ LET ld == loads[i]
         drawn == IF ld.kind = "seed"
                  THEN DrawImage(canvas, currentSketch.thumbnail, gco)
                  ELSE DrawImage(canvas, ImportedImage, "source-over")
     IN /\ canvas' = drawn
        /\ gco' = IF ld.kind = "seed" THEN gco ELSE "source-over"
        /\ saveHistory(ld.step, drawn)
        /\ nImports' = IF ld.kind = "import" THEN nImports + 1 ELSE nImports
        /\ nSeeds' = IF ld.kind = "seed" THEN nSeeds + 1 ELSE nSeeds
        /\ lastOp' = IF ld.kind = "seed" THEN "seedload" ELSE "importload"
        /\ place' = IF ld.kind = "seed" THEN place
                    ELSE [place EXCEPT !.rect = Placement(ContainerW, ContainerH,
                                                          place.iw, place.ih)]
  /\ loads' = RemoveAt(loads, i)
  /\ UNCHANGED <<appVars, syncVars, effectPending, containerSized, isInitialized, context,
                 isDrawing, lastPoint, toolVars, pressed, nStrokes, strokesOnly, nInits>>

\* img.onerror of the thumbnail seed; a failed import has no handler
imgOnerror(i) ==
  /\ UNCHANGED <<captureFails, place, pointer>>
  /\ Mounted /\ i \in 1..Len(loads)
  /\ IF loads[i].kind = "seed"
     THEN /\ nCommits < MaxCommits
          /\ saveHistory(loads[i].step, canvas)
          /\ nSeeds' = nSeeds + 1
     ELSE UNCHANGED <<histVars, nSeeds>>
  /\ loads' = RemoveAt(loads, i)
  /\ lastOp' = "input"
  /\ UNCHANGED <<appVars, syncVars, effectPending, containerSized, isInitialized, context,
                 canvas, gco, isDrawing, lastPoint, toolVars, pressed, nStrokes, nImports,
                 strokesOnly, nInits>>

\* the Save button (shown unless the sketch is ready for sync)
handleSave ==
  /\ UNCHANGED <<captureFails, place, pointer>>
  /\ Ready
  /\ currentSketch.status # PendingSync
  /\ projects' = handleSaveSketch(projects, currentProject, currentSketch.id, Flatten(canvas))
  /\ lastOp' = "save"
  /\ UNCHANGED <<view, currentProject, currentSketch, nextId, syncVars, effectPending,
                 containerSized, isInitialized, context, canvas, gco, histVars, isDrawing,
                 lastPoint, toolVars, loads, pressed, ghostCnt>>

\* the steps of handleSync, in program order
SyncSteps == <<"onSave", "setTimeout">>

\* the Sync button (shown when the sketch is ready for sync): handleSave(), then
\* setSyncing(true), then setTimeout with the onSync of this render, which closes
\* over the project list as it was before the save ("saved" remembers the
\* thumbnail this sync exported)
handleSync ==
  /\ UNCHANGED <<captureFails, place, pointer>>
  /\ Ready
  /\ currentSketch.status = PendingSync
  /\ nSyncs < MaxSyncs
  /\ projects' = handleSaveSketch(projects, currentProject, currentSketch.id, Flatten(canvas))
  /\ syncing' = TRUE
  /\ timers' = Append(timers, [k |-> nSyncs + 1, sketchId |-> currentSketch.id,
                               projects |-> projects, currentProject |-> currentProject,
                               saved |-> Flatten(canvas), live |-> TRUE])
  /\ nSyncs' = nSyncs + 1
  /\ syncLog' = Append(syncLog, SyncSteps)
  /\ lastOp' = "sync"
  /\ UNCHANGED <<view, currentProject, currentSketch, nextId, effectPending,
                 containerSized, isInitialized, context, canvas, gco, histVars, isDrawing,
                 lastPoint, toolVars, loads, pressed, ghostCnt>>

\* as syncTimeout, had handleSync used setInterval: the callback stays scheduled
syncTimeoutMutant ==
  /\ UNCHANGED <<captureFails, place, pointer>>
  /\ Len(timers) > 0
  /\ LET t == Head(timers)
     IN /\ projects' = handleSyncSketch(t.projects, t.currentProject, t.sketchId)
        /\ syncing' = IF t.live THEN FALSE ELSE syncing
        /\ syncLog' = [syncLog EXCEPT ![t.k] = Append(@, "onSync")]
  /\ timers' = timers
  /\ lastOp' = "onSync"
  /\ UNCHANGED <<view, currentProject, currentSketch, nextId, nSyncs, effectPending,
                 containerSized, isInitialized, context, canvas, gco, histVars, isDrawing,
                 lastPoint, toolVars, loads, pressed, ghostCnt>>

\* the setTimeout callback of handleSync, 2000 ms later; equal delays fire in order
syncTimeout ==
  /\ UNCHANGED <<captureFails, place, pointer>>
  /\ Len(timers) > 0
  /\ LET t == Head(timers)
     IN /\ projects' = handleSyncSketch(t.projects, t.currentProject, t.sketchId)
        /\ syncing' = IF t.live THEN FALSE ELSE syncing
        /\ syncLog' = [syncLog EXCEPT ![t.k] = Append(@, "onSync")]
  /\ timers' = Tail(timers)
  /\ lastOp' = "onSync"
  /\ UNCHANGED <<view, currentProject, currentSketch, nextId, nSyncs, effectPending,
                 containerSized, isInitialized, context, canvas, gco, histVars, isDrawing,
                 lastPoint, toolVars, loads, pressed, ghostCnt>>

\* the platform starts or stops failing snapshot captures
captureOutcome ==
  /\ Ready
  /\ captureFails' = ~captureFails
  /\ UNCHANGED <<place, pointer>>
  /\ lastOp' = "input"
  /\ UNCHANGED <<appVars, syncVars, effectPending, containerSized, isInitialized, context,
                 canvas, gco, histVars, isDrawing, lastPoint, toolVars, loads, pressed,
                 ghostCnt>>

\* ------------------------------------------------ CanvasView.tsx: toolbar
\* as updateValue, without Math.max(0, Math.min(1, ...))
updateValueMutant(min, max, relativeY) ==
  LET above == TrackHeight - relativeY
  IN (2 * min * TrackHeight + 2 * above * (max - min) + TrackHeight) \div (2 * TrackHeight)

\* Slider.updateValue with relativeY = clientY - rect.top
updateValue(min, max, relativeY) ==
  LET above == Max(0, Min(TrackHeight, TrackHeight - relativeY))
  IN (2 * min * TrackHeight + 2 * above * (max - min) + TrackHeight) \div (2 * TrackHeight)

setBrushSize(y) ==
  /\ UNCHANGED <<captureFails, place, pointer>>
  /\ Ready /\ Uncovered
  /\ brushSize' = updateValue(BrushMin, BrushMax, y)
  /\ lastOp' = "input"
  /\ UNCHANGED <<appVars, syncVars, effectPending, containerSized, isInitialized, context,
                 canvas, gco, histVars, isDrawing, lastPoint, tool, opacity, loads, pressed,
                 ghostCnt>>

setOpacity(y) ==
  /\ UNCHANGED <<captureFails, place, pointer>>
  /\ Ready /\ Uncovered
  /\ opacity' = updateValue(OpacityMin, OpacityMax, y)
  /\ lastOp' = "input"
  /\ UNCHANGED <<appVars, syncVars, effectPending, containerSized, isInitialized, context,
                 canvas, gco, histVars, isDrawing, lastPoint, tool, brushSize, loads, pressed,
                 ghostCnt>>

setTool(t) ==
  /\ UNCHANGED <<captureFails, place, pointer>>
  /\ Ready
  /\ tool' = t
  /\ lastOp' = "input"
  /\ UNCHANGED <<appVars, syncVars, effectPending, containerSized, isInitialized, context,
                 canvas, gco, histVars, isDrawing, lastPoint, brushSize, opacity, loads,
                 pressed, ghostCnt>>

\* ------------------------------------------- CanvasView.tsx: mount effect
\* the body of useEffect right after mounting
mountEffect ==
  /\ UNCHANGED <<captureFails, place, pointer>>
  /\ Mounted /\ effectPending
  /\ effectPending' = FALSE
  /\ initCanvas
  /\ lastOp' = "effect"
  /\ UNCHANGED <<appVars, syncVars, containerSized, isDrawing, lastPoint, toolVars,
                 pressed, nStrokes, nImports, strokesOnly>>

\* the layout gives the container another size
containerResize ==
  /\ UNCHANGED <<captureFails, place, pointer>>
  /\ Ready
  /\ containerSized' = ~containerSized
  /\ lastOp' = "input"
  /\ UNCHANGED <<appVars, syncVars, effectPending, isInitialized, context, canvas, gco,
                 histVars, isDrawing, lastPoint, toolVars, loads, pressed, ghostCnt>>

\* the ResizeObserver callback
resizeObserver ==
  /\ UNCHANGED <<captureFails, place, pointer>>
  /\ Ready
  /\ initCanvas
  /\ lastOp' = "resize"
  /\ UNCHANGED <<appVars, syncVars, effectPending, containerSized, isDrawing, lastPoint,
                 toolVars, pressed, nStrokes, nImports, strokesOnly>>

\* the effect runs again (React.StrictMode runs cleanup and the effect a second
\* time on the mounted component; refs and state are kept)
effectRerun ==
  /\ UNCHANGED <<captureFails, place, pointer>>
  /\ Ready
  /\ initCanvas
  /\ lastOp' = "rerun"
  /\ UNCHANGED <<appVars, syncVars, effectPending, containerSized, isDrawing, lastPoint,
                 toolVars, pressed, nStrokes, nImports, strokesOnly>>

\* --------------------------------------------------- App.tsx: navigation
\* Date.now().toString() of the n-th creation
NewId(n) == "170000000000" \o ToString(n)

\* Gallery: a sketch card is clicked
handleOpenSketch(pi, si) ==
  /\ UNCHANGED captureFails
  /\ view = "GALLERY"
  /\ pi \in 1..Len(projects) /\ si \in 1..Len(projects[pi].sketches)
  /\ currentProject' = projects[pi].id
  /\ currentSketch' = projects[pi].sketches[si]
  /\ view' = "CANVAS"
  /\ FreshEditor
  /\ effectPending' = TRUE
  /\ \E sized \in BOOLEAN : containerSized' = sized
  /\ lastOp' = "open"
  /\ UNCHANGED <<projects, nextId, timers, nSyncs, syncLog>>

\* as CreateResult, with the new sketch put last
CreateResultMutant(projs, projectId, newSketch) ==
  LET updProject(p) == IF p.id = projectId
                       THEN [p EXCEPT !.sketches = p.sketches \o <<newSketch>>]
                       ELSE p
  IN MapSeq(projs, updProject)

\* the project list after handleCreateSketch
CreateResult(projs, projectId, newSketch) ==
  LET updProject(p) == IF p.id = projectId
                       THEN [p EXCEPT !.sketches = <<newSketch>> \o p.sketches]
                       ELSE p
  IN MapSeq(projs, updProject)

\* Gallery: the + button of a project
handleCreateSketch(projectId) ==
  /\ UNCHANGED captureFails
  /\ view = "GALLERY"
  /\ nextId < MaxCreated
  /\ IF \E i \in 1..Len(projects) : projects[i].id = projectId
     THEN LET project == projects[CHOOSE i \in 1..Len(projects) : projects[i].id = projectId]
              newSketch == [id |-> NewId(nextId + 1),
                            title |-> "Untitled Sketch " \o ToString(Len(project.sketches) + 1),
                            createdAt |-> Today,
                            thumbnail |-> NoThumbnail,
                            status |-> Local]
          IN /\ projects' = CreateResult(projects, projectId, newSketch)
             /\ currentProject' = project.id
             /\ currentSketch' = newSketch
             /\ view' = "CANVAS"
             /\ nextId' = nextId + 1
             /\ FreshEditor
             /\ effectPending' = TRUE
             /\ \E sized \in BOOLEAN : containerSized' = sized
     ELSE UNCHANGED <<appVars, effectPending, containerSized, isInitialized, context, canvas,
                      gco, histVars, isDrawing, lastPoint, toolVars, syncing, loads, pressed,
                      ghostCnt, place, pointer>>
  /\ lastOp' = "create"
  /\ UNCHANGED <<timers, nSyncs, syncLog>>

\* the back arrow of the editor
handleBackToGallery ==
  /\ UNCHANGED captureFails
  /\ Ready
  /\ view' = "GALLERY"
  /\ currentSketch' = NoSketch
  /\ FreshEditor
  /\ effectPending' = FALSE
  /\ containerSized' = FALSE
  /\ timers' = Disown(timers)
  /\ lastOp' = "back"
  /\ UNCHANGED <<projects, currentProject, nextId, nSyncs, syncLog>>

\* ------------------------------------------------------------ behaviours
\* the files offered to the import and the sizes of the container, in CSS pixels
SurfaceWidths == {400, 3}
SurfaceHeights == {600, 2}
ImageWidths == {800, 1, 7}
ImageHeights == {400, 5}
ExampleImport == [W |-> 400, H |-> 600, iw |-> 800, ih |-> 400, rect |-> NoRect]

Init ==
  /\ view = "GALLERY"
  /\ projects = INITIAL_PROJECTS
  /\ currentProject = NoProject
  /\ currentSketch = NoSketch
  /\ nextId = 0
  /\ timers = << >>
  /\ effectPending = FALSE
  /\ containerSized = FALSE
  /\ isInitialized = FALSE
  /\ context = FALSE
  /\ canvas = Blank
  /\ gco = "source-over"
  /\ history = << >>
  /\ historyStep = 0 - 1
  /\ isDrawing = FALSE
  /\ lastPoint = NoPoint
  /\ tool = "brush"
  /\ brushSize = InitialBrushSize
  /\ opacity = InitialOpacity
  /\ syncing = FALSE
  /\ loads = << >>
  /\ pressed = FALSE
  /\ lastOp = "init"
  /\ nCommits = 0
  /\ nSeeds = 0
  /\ nStrokes = 0
  /\ nImports = 0
  /\ strokesOnly = TRUE
  /\ nInits = 0
  /\ captureFails = FALSE
  /\ place = ExampleImport
  /\ pointer = NoHit(Rat(1, 1))
  /\ nSyncs = 0
  /\ syncLog = << >>

\* ---- the whole application
Next ==
  \/ \E pi \in 1..2, si \in 1..(2 + MaxCreated) : handleOpenSketch(pi, si)
  \/ \E pid \in ProjectIds : handleCreateSketch(pid)
  \/ handleBackToGallery
  \/ mountEffect
  \/ containerResize
  \/ resizeObserver
  \/ effectRerun
  \/ \E x \in Cells : startDrawing(x)
  \/ \E x \in Cells, p2 \in Pressures2 : draw(x, p2)
  \/ \E ev \in {"pointerup", "pointerleave"} : stopDrawing(ev)
  \/ handleUndo
  \/ handleRedo
  \/ handleImageImport
  \/ \E i \in 1..MaxLoads : imgOnload(i)
  \/ \E i \in 1..MaxLoads : imgOnerror(i)
  \/ handleSave
  \/ handleSync
  \/ syncTimeout
  \/ \E y \in SizeYs : setBrushSize(y)
  \/ \E y \in OpacityYs : setOpacity(y)
  \/ \E t \in {"brush", "eraser"} : setTool(t)
  \/ captureOutcome

Spec == Init /\ [][Next]_vars

\* ---- one editor session: CanvasView just mounted on sketch s2, never saved or
\* saved earlier from an empty canvas; the coordinator is left alone
\* the project list after sketch s2 was saved with thumbnail th (th = NoThumbnail:
\* never saved)
ProjectsWith(th) == handleSaveSketch(INITIAL_PROJECTS, "p1", "s2", th)

EditorAtMount ==
  /\ view = "CANVAS"
  /\ \E th \in {NoThumbnail, Flatten(Blank)} :
       /\ projects = ProjectsWith(th)
       /\ currentSketch = ProjectsWith(th)[1].sketches[2]
  /\ currentProject = "p1"
  /\ nextId = 0
  /\ timers = << >>
  /\ effectPending = TRUE
  /\ containerSized \in BOOLEAN
  /\ isInitialized = FALSE
  /\ context = FALSE
  /\ canvas = Blank
  /\ gco = "source-over"
  /\ history = << >>
  /\ historyStep = 0 - 1
  /\ isDrawing = FALSE
  /\ lastPoint = NoPoint
  /\ tool = "brush"
  /\ brushSize = InitialBrushSize
  /\ opacity = InitialOpacity
  /\ syncing = FALSE
  /\ loads = << >>
  /\ pressed = FALSE
  /\ lastOp = "open"
  /\ nCommits = 0
  /\ nSeeds = 0
  /\ nStrokes = 0
  /\ nImports = 0
  /\ strokesOnly = TRUE
  /\ nInits = 0
  /\ captureFails = FALSE
  /\ nSyncs = 0
  /\ syncLog = << >>

InitEditor == EditorAtMount /\ place = ExampleImport /\ pointer = NoHit(Rat(1, 1))

\* inputs of the history runs: brush taps and drags on one point; the layout
\* keeps the container's size once the editor is initialized, and resize
\* notifications after that (which change nothing, see C12) are left out
HistoryCells == {1}
HistoryPressures2 == {1}

NextEditor ==
  \/ mountEffect
  \/ (~isInitialized /\ containerResize)
  \/ (~isInitialized /\ resizeObserver)
  \/ \E x \in HistoryCells : startDrawing(x)
  \/ \E x \in HistoryCells, p2 \in HistoryPressures2 : draw(x, p2)
  \/ \E ev \in {"pointerup", "pointerleave"} : stopDrawing(ev)
  \/ handleUndo
  \/ handleRedo
  \/ handleImageImport
  \/ \E i \in 1..MaxLoads : imgOnload(i)
  \/ \E i \in 1..MaxLoads : imgOnerror(i)
  \/ \E t \in {"brush", "eraser"} : setTool(t)

SpecEditor == InitEditor /\ [][NextEditor]_vars

\* ---- one editor session seen from its surface: layout changes, resize
\* notifications and effect re-runs at any time, around taps and the seed load
NextInit ==
  \/ mountEffect
  \/ containerResize
  \/ resizeObserver
  \/ effectRerun
  \/ \E x \in HistoryCells : startDrawing(x)
  \/ \E ev \in {"pointerup", "pointerleave"} : stopDrawing(ev)
  \/ \E i \in 1..MaxLoads : imgOnload(i)
  \/ \E i \in 1..MaxLoads : imgOnerror(i)

SpecInit == InitEditor /\ [][NextInit]_vars

\* ---- one editor session on a platform whose snapshot captures may fail
NextCapture ==
  \/ mountEffect
  \/ (~isInitialized /\ containerResize)
  \/ resizeObserver
  \/ \E x \in HistoryCells : startDrawing(x)
  \/ \E ev \in {"pointerup", "pointerleave"} : stopDrawing(ev)
  \/ handleImageImport
  \/ \E i \in 1..MaxLoads : imgOnload(i)
  \/ \E i \in 1..MaxLoads : imgOnerror(i)
  \/ captureOutcome

SpecCapture == InitEditor /\ [][NextCapture]_vars

\* ---- one editor session with imports under every tool setting: taps on one
\* point, the toolbar and imports; no undo, redo or layout change
NextImport ==
  \/ mountEffect
  \/ \E x \in HistoryCells : startDrawing(x)
  \/ \E ev \in {"pointerup", "pointerleave"} : stopDrawing(ev)
  \/ handleImageImport
  \/ \E i \in 1..MaxLoads : imgOnload(i)
  \/ \E i \in 1..MaxLoads : imgOnerror(i)
  \/ \E y \in SizeYs : setBrushSize(y)
  \/ \E y \in OpacityYs : setOpacity(y)
  \/ \E t \in {"brush", "eraser"} : setTool(t)

SpecImport == InitEditor /\ [][NextImport]_vars

\* ---- imports of images of several sizes into containers of several sizes
InitPlacement ==
  /\ EditorAtMount
  /\ place \in [W : SurfaceWidths, H : SurfaceHeights, iw : ImageWidths,
                 ih : ImageHeights, rect : {NoRect}]
  /\ pointer = NoHit(Rat(1, 1))

NextPlacement ==
  \/ mountEffect
  \/ handleImageImport
  \/ \E i \in 1..MaxLoads : imgOnload(i)
  \/ \E i \in 1..MaxLoads : imgOnerror(i)

SpecPlacement == InitPlacement /\ [][NextPlacement]_vars

\* ---- one editor session with strokes under every tool setting: strokes over all
\* cells and pressures and the toolbar; no import, undo, redo or layout change
NextTools ==
  \/ mountEffect
  \/ \E x \in Cells : startDrawing(x)
  \/ \E x \in Cells, p2 \in Pressures2 : draw(x, p2)
  \/ \E ev \in {"pointerup", "pointerleave"} : stopDrawing(ev)
  \/ \E i \in 1..MaxLoads : imgOnload(i)
  \/ \E i \in 1..MaxLoads : imgOnerror(i)
  \/ \E y \in SizeYs : setBrushSize(y)
  \/ \E y \in OpacityYs : setOpacity(y)
  \/ \E t \in {"brush", "eraser"} : setTool(t)

SpecTools == InitEditor /\ [][NextTools]_vars

\* ---- the toolbar alone: both sliders touched above, inside and below the track
SliderYs == {0 - 10, 0, 40, 80, 81, TrackHeight, TrackHeight + 10}

NextSliders ==
  \/ mountEffect
  \/ \E y \in SliderYs : setBrushSize(y)
  \/ \E y \in SliderYs : setOpacity(y)
  \/ \E t \in {"brush", "eraser"} : setTool(t)

SpecSliders == InitEditor /\ [][NextSliders]_vars

\* ---- pointer-downs on displays of several pixel ratios and containers of
\* several widths
ContainerWidths == {360, 400, 1000}
DevicePixelRatios == {Rat(1, 1), Rat(3, 2), Rat(2, 1), Rat(3, 1)}

InitCoords ==
  /\ EditorAtMount
  /\ place \in [W : ContainerWidths, H : {600}, iw : {800}, ih : {400}, rect : {NoRect}]
  /\ pointer \in {NoHit(dpr) : dpr \in DevicePixelRatios}

NextCoords ==
  \/ mountEffect
  \/ \E x \in Cells : startDrawing(x)
  \/ \E ev \in {"pointerup", "pointerleave"} : stopDrawing(ev)

SpecCoords == InitCoords /\ [][NextCoords]_vars

\* ---- the coordinator: navigation, save and sync, with nothing drawn in the editor
NextApp ==
  \/ \E pi \in 1..2, si \in 1..(2 + MaxCreated) : handleOpenSketch(pi, si)
  \/ \E pid \in ProjectIds : handleCreateSketch(pid)
  \/ handleBackToGallery
  \/ mountEffect
  \/ handleSave
  \/ handleSync
  \/ syncTimeout

SpecApp == Init /\ [][NextApp]_vars

\* ======================================================= history claims
\* C1: in every reachable state of the editor the history position lies in
\* -1 .. length(history) - 1
C1_PositionInRange ==
  Mounted => (0 - 1 <= historyStep /\ historyStep <= Len(history) - 1)

\* C2: every commit leaves history = (entries 0..position at the moment of the
\* commit) followed by the new snapshot, and position = new length - 1
C2_CommitTruncates ==
  [][nCommits' = nCommits + 1 =>
       /\ history' = Append(Slice(history, historyStep + 1), canvas')
       /\ historyStep' = Len(history') - 1]_vars

\* C3: after N >= 1 completed strokes in an initialized editor, with no undo, redo
\* or import in between, the history has N + 1 entries and the position is N
C3_StrokeCount ==
  (Ready /\ isInitialized /\ strokesOnly /\ ~isDrawing /\ ~pressed /\ nStrokes >= 1) =>
     (Len(history) = nStrokes + 1 /\ historyStep = nStrokes)

\* C4: undo with position > 0 restores the snapshot at position - 1 and lowers the
\* position by one; undo with position <= 0 changes neither buffer nor position
\* (the handler never writes the history)
C4_Undo ==
  Ready =>
    LET r == UndoResult(canvas, history, historyStep, context)
    IN IF historyStep > 0
       THEN /\ Defined(history, historyStep - 1)
            /\ r.canvas = history[historyStep]
            /\ r.historyStep = historyStep - 1
       ELSE r.canvas = canvas /\ r.historyStep = historyStep

\* C5: redo with position < length - 1 restores the snapshot at position + 1 and
\* raises the position by one; redo with position = length - 1 changes neither
\* buffer nor position (the handler never writes the history)
C5_Redo ==
  Ready =>
    LET r == RedoResult(canvas, history, historyStep, context)
    IN /\ historyStep < Len(history) - 1 =>
            /\ r.canvas = history[historyStep + 2]
            /\ r.historyStep = historyStep + 1
       /\ historyStep = Len(history) - 1 =>
            /\ r.canvas = canvas
            /\ r.historyStep = historyStep

\* C5 witness: a redo has just put back a snapshot that differs from the one before it
C5_Witness ==
  /\ lastOp = "redo"
  /\ historyStep >= 1 /\ historyStep <= Len(history) - 1
  /\ canvas = history[historyStep + 1]
  /\ canvas # history[historyStep]

\* C6: with no stroke in progress and position > 0, undo followed at once by redo
\* gives back the buffer and the position from before the undo
C6_UndoRedoRoundTrip ==
  (Ready /\ ~isDrawing /\ historyStep > 0) =>
    LET u == UndoResult(canvas, history, historyStep, context)
        r == RedoResult(u.canvas, history, u.historyStep, context)
    IN r.canvas = canvas /\ r.historyStep = historyStep

\* C7: a pointer-move never changes history or position, a pointer-up or
\* pointer-leave without a stroke in progress commits nothing, and every step adds
\* as many commits as it completes seeds, strokes and imports
C7_SnapshotGranularity ==
  [][lastOp' \notin {"open", "create", "back"} =>
       /\ (\E x \in Cells, p2 \in Pressures2 : draw(x, p2)) =>
             UNCHANGED <<history, historyStep>>
       /\ (~isDrawing /\ \E ev \in {"pointerup", "pointerleave"} : stopDrawing(ev)) =>
             UNCHANGED <<history, historyStep, nCommits>>
       /\ nCommits' - nCommits =
            (nSeeds' - nSeeds) + (nStrokes' - nStrokes) + (nImports' - nImports)]_vars

\* ========================================================== sync claims
StatusesOf(projs, id) ==
  {projs[i].sketches[j].status :
     <<i, j>> \in {q \in (1..Len(projs)) \X (1..(2 + MaxCreated)) :
                     /\ q[2] <= Len(projs[q[1]].sketches)
                     /\ projs[q[1]].sketches[q[2]].id = id}}

Rank(st) == IF st = Local THEN 0 ELSE IF st = PendingSync THEN 1 ELSE 2

\* C8: when the delay of a sync elapses and onSync(sketchId) is raised, the status
\* of that sketch in the project list is Synced
C8_SyncedAfterSync ==
  [][syncTimeout => StatusesOf(projects', Head(timers).sketchId) = {Synced}]_vars

\* C9: across every step the status of each sketch of the project list stays the
\* same or advances one step along Local -> PendingSync -> Synced
C9_StatusMonotonic ==
  [][\A id \in {"s1", "s2"} \cup {NewId(n) : n \in 1..MaxCreated} :
       \A a \in StatusesOf(projects, id), b \in StatusesOf(projects', id) :
          Rank(b) - Rank(a) \in {0, 1}]_vars

\* C9 witness: a sync completion has been applied to the project list
C9_Witness ==
  /\ lastOp = "onSync"
  /\ StatusesOf(projects, "s1") = {PendingSync}
  /\ nextId > 0

C11_SingleFlight ==
  /\ \A i, j \in 1..Len(timers) : i # j => timers[i].sketchId # timers[j].sketchId
  /\ (syncing /\ lastOp = "sync") => Len(timers) <= 1

\* ================================================== initialization claims
\* C12: the backing store of a mounted editor is initialized at most once, and a
\* resize notification or a re-run of the effect that arrives after initialization
\* changes neither the buffer nor the history nor the position
C12_InitOnce ==
  [][/\ Mounted => nInits' <= 1
     /\ (isInitialized /\ (resizeObserver \/ effectRerun)) =>
           UNCHANGED <<canvas, history, historyStep, context, gco, isInitialized>>]_vars

\* C12 witness: a resize notification or an effect re-run arrived in an initialized
\* editor that holds a committed stroke
C12_Witness ==
  /\ lastOp \in {"resize", "rerun"}
  /\ isInitialized /\ nInits = 1
  /\ nStrokes >= 1 /\ Len(history) >= 2
  /\ canvas # Blank

\* C13: the first commit of an editor session is the seed of surface initialization
\* and leaves a history of length 1 at position 0 whose snapshot is the blank or
\* the thumbnail-seeded buffer
C13_SeedFirst ==
  [][(Mounted /\ nCommits = 0 /\ nCommits' = 1) =>
       /\ nSeeds' = 1
       /\ Len(history') = 1 /\ historyStep' = 0
       /\ history'[1] \in {Blank, currentSketch.thumbnail}]_vars

\* a step that calls saveHistory
CommitAttempt ==
  \/ \E ev \in {"pointerup", "pointerleave"} : isDrawing /\ context /\ stopDrawing(ev)
  \/ \E i \in 1..MaxLoads : imgOnload(i)
  \/ \E i \in 1..Len(loads) : loads[i].kind = "seed" /\ imgOnerror(i)
  \/ /\ ~isInitialized /\ containerSized /\ currentSketch.thumbnail = NoThumbnail
     /\ (mountEffect \/ resizeObserver \/ effectRerun)

\* C14: a commit whose snapshot capture fails leaves the history and the position
\* exactly as they were; a commit whose capture succeeds updates both
C14_CaptureFailureAtomic ==
  [][CommitAttempt =>
       IF captureFails
       THEN UNCHANGED <<history, historyStep>>
       ELSE Len(history') >= 1 /\ historyStep' = historyStep + 1]_vars

\* C14 witness: a stroke has just ended with its mark on the buffer and its commit
\* dropped by a failed capture
C14_Witness ==
  /\ lastOp = "pointerup" /\ captureFails
  /\ context /\ ~isDrawing
  /\ Len(history) = 1 /\ historyStep = 0
  /\ canvas # history[1]

\* ========================================================= import claims
\* the completion of an image import
ImportCompletes == \E i \in 1..Len(loads) : loads[i].kind = "import" /\ imgOnload(i)

\* C15: the completion of an import leaves tool, brushSize and opacity as they
\* were, draws the image with source-over at full alpha whatever tool and opacity
\* are selected, and commits exactly one snapshot, that of the buffer it drew
C15_ImportFrame ==
  [][ImportCompletes =>
       /\ UNCHANGED <<tool, brushSize, opacity, isDrawing, lastPoint, context>>
       /\ canvas' = DrawImage(canvas, ImportedImage, "source-over")
       /\ nCommits' = nCommits + 1
       /\ Len(history') >= 1 /\ history'[Len(history')] = canvas']_vars

\* C15 witness: an import completed while the eraser was selected at a lowered
\* opacity, over a buffer last touched by the eraser
C15_Witness ==
  /\ lastOp = "importload"
  /\ tool = "eraser" /\ opacity < OpacityMax /\ brushSize # InitialBrushSize
  /\ nStrokes >= 1
  /\ canvas = ImportedImage

\* C16: an image of iw x ih placed on a surface of W x H (positive sizes) has size
\* (iw*s, ih*s) for s = min(W/iw, H/ih) * 0.8 and top-left corner
\* ((W - iw*s)/2, (H - ih*s)/2): it is centred, lies inside the surface and spans
\* exactly 80% of the surface in the limiting dimension; 800 x 400 on 400 x 600
\* is placed as 320 x 160 at (40, 220)
C16_ImportPlacement ==
  (place.rect.drawn /\ place.rect.cw > 0 /\ place.rect.ch > 0) =>
    LET r == place.rect
        W == Rat(r.cw, 1)
        H == Rat(r.ch, 1)
        zero == Rat(0, 1)
        s == RMul(RMin(Rat(r.cw, place.iw), Rat(r.ch, place.ih)), Rat(4, 5))
        widthLimits == r.cw * place.ih <= r.ch * place.iw
    IN /\ REq(r.w, RMul(Rat(place.iw, 1), s)) /\ REq(r.h, RMul(Rat(place.ih, 1), s))
       /\ REq(RAdd(r.x, RAdd(r.w, r.x)), W) /\ REq(RAdd(r.y, RAdd(r.h, r.y)), H)
       /\ RLe(zero, r.x) /\ RLe(zero, r.y)
       /\ RLe(RAdd(r.x, r.w), W) /\ RLe(RAdd(r.y, r.h), H)
       /\ IF widthLimits THEN REq(r.w, RMul(W, Rat(4, 5))) ELSE REq(r.h, RMul(H, Rat(4, 5)))
       /\ (r.cw = 400 /\ r.ch = 600 /\ place.iw = 800 /\ place.ih = 400) =>
            /\ s = Rat(2, 5)
            /\ r.w = Rat(320, 1) /\ r.h = Rat(160, 1)
            /\ r.x = Rat(40, 1) /\ r.y = Rat(220, 1)

\* C16 witness: the 800 x 400 image was placed on the 400 x 600 surface
C16_Witness ==
  /\ lastOp = "importload" /\ place.rect.drawn
  /\ place.rect.cw = 400 /\ place.rect.ch = 600 /\ place.iw = 800 /\ place.ih = 400

\* ========================================================== tool claims
\* pointer positions above, inside and below a slider's track
TrackYs == (0 - 10)..(TrackHeight + 10)

\* C17: in every reachable state tool is brush or eraser, brushSize is in 1..50 and
\* opacity is in 1..100; the value a slider reports for a pointer position above,
\* inside or below its track lies in [min, max], being max at and above the top of
\* the track and min at and below its bottom
C17_ToolRange ==
  /\ tool \in {"brush", "eraser"}
  /\ brushSize \in BrushMin..BrushMax
  /\ opacity \in OpacityMin..OpacityMax
  /\ \A y \in TrackYs :
       /\ updateValue(BrushMin, BrushMax, y) \in BrushMin..BrushMax
       /\ updateValue(OpacityMin, OpacityMax, y) \in OpacityMin..OpacityMax
       /\ y <= 0 => updateValue(BrushMin, BrushMax, y) = BrushMax
       /\ y >= TrackHeight => updateValue(OpacityMin, OpacityMax, y) = OpacityMin

\* C17 witness: both sliders were moved, one from above and one from below its
\* track, and the eraser is selected
C17_Witness ==
  /\ tool = "eraser"
  /\ brushSize = BrushMax /\ brushSize # InitialBrushSize
  /\ opacity = OpacityMin /\ opacity # InitialOpacity

\* ======================================================== stroke claims
\* C18: a pointer-down always sets drawing-in-progress, records its point as the
\* last point and puts the tool's single-point mark at that point on the buffer
\* without committing; the pointer-up that ends a tap commits one snapshot, which
\* is the buffer with that mark
C18_Begin ==
  [][/\ \A x \in Cells :
          startDrawing(x) =>
            /\ isDrawing' /\ lastPoint' = x
            /\ canvas' = Mark(canvas, CoveredBy(x, DotSize2(tool, brushSize)), tool, opacity)
            /\ x \in CoveredBy(x, DotSize2(tool, brushSize))
            /\ UNCHANGED <<history, historyStep, nCommits>>
     /\ (pressed /\ stopDrawing("pointerup")) =>
            /\ nCommits' = nCommits + 1
            /\ Len(history') >= 1 /\ history'[Len(history')] = canvas]_vars

\* C19: a pointer-move while no drawing is in progress changes neither the buffer
\* nor the last point nor the history nor the position; while a drawing is in
\* progress it draws the segment from the last point to its point and makes its
\* point the last point, committing nothing
C19_Extend ==
  [][\A x \in Cells, p2 \in Pressures2 :
       draw(x, p2) =>
         IF ~isDrawing
         THEN UNCHANGED <<canvas, lastPoint, history, historyStep>>
         ELSE /\ lastPoint # NoPoint
              /\ canvas' = Mark(canvas, SegmentCells(lastPoint, x, LineWidth2(tool, brushSize, p2)),
                                tool, opacity)
              /\ lastPoint' = x
              /\ UNCHANGED <<history, historyStep>>]_vars

\* C20: a pointer-up or pointer-leave while a stroke is in progress clears
\* drawing-in-progress and the last point and commits one snapshot, that of the
\* current buffer; no drawing is in progress once the pointer that started it is
\* no longer down
C20_End ==
  [][/\ \A ev \in {"pointerup", "pointerleave"} :
          (isDrawing /\ stopDrawing(ev)) =>
            /\ ~isDrawing' /\ lastPoint' = NoPoint
            /\ nCommits' = nCommits + 1
            /\ Len(history') >= 1 /\ history'[Len(history')] = canvas
     /\ (Ready' /\ ~pressed') => ~isDrawing']_vars

\* ==================================================== coordinate claim
\* C21: a pointer-down at offset x from the left edge of the displayed canvas is
\* drawn at logical position x, the mark is shown at offset x, and the logical
\* width of the buffer (backing width / dpr) is the displayed width of the canvas
C21_CoordinateMapping ==
  pointer.down =>
    /\ pointer.logical = pointer.off
    /\ REq(pointer.shown, Rat(pointer.off, 1))
    /\ REq(LogicalWidth(place.W, pointer.dpr), Rat(DisplayedWidth(place.W), 1))

\* ===================================================== coordinator claims
\* C22: onSave(sketchId, thumbnail) replaces the thumbnail of the sketch with that
\* id in the current project and nothing else: that sketch's other fields, the
\* other sketches, their order and the other projects stay as they were; with no
\* current project the project list stays as it was
C22_SaveFrame ==
  [][/\ (handleSave \/ handleSync) =>
          /\ Len(projects') = Len(projects)
          /\ \A i \in 1..Len(projects) :
               /\ projects'[i].id = projects[i].id /\ projects'[i].name = projects[i].name
               /\ Len(projects'[i].sketches) = Len(projects[i].sketches)
               /\ \A j \in 1..Len(projects[i].sketches) :
                    LET old == projects[i].sketches[j]
                    IN projects'[i].sketches[j] =
                         IF projects[i].id = currentProject /\ old.id = currentSketch.id
                         THEN [old EXCEPT !.thumbnail = Flatten(canvas)]
                         ELSE old
     /\ handleSaveSketch(projects, NoProject, "s1", Flatten(Blank)) = projects]_vars

\* C22 witness: a save has given one sketch of a project a thumbnail while the
\* other sketch of that project has none
C22_Witness ==
  /\ lastOp = "save"
  /\ projects[1].sketches[Len(projects[1].sketches)].thumbnail = Flatten(Blank)
  /\ projects[1].sketches[Len(projects[1].sketches) - 1].thumbnail = NoThumbnail
  /\ projects[1].sketches[Len(projects[1].sketches)].status = Local

\* C23: creating a sketch in an existing project puts a new sketch with status
\* Local and no thumbnail in front of that project's sketches, which keep their
\* order, leaves the other projects as they were and opens the editor on the new
\* sketch; creating a sketch for an unknown project id changes nothing
C23_CreateSketch ==
  [][\A pid \in ProjectIds :
       handleCreateSketch(pid) =>
         IF \E i \in 1..Len(projects) : projects[i].id = pid
         THEN /\ Len(projects') = Len(projects)
              /\ \A i \in 1..Len(projects) :
                   IF projects[i].id = pid
                   THEN /\ projects'[i] = [projects[i] EXCEPT !.sketches = projects'[i].sketches]
                        /\ Tail(projects'[i].sketches) = projects[i].sketches
                        /\ Head(projects'[i].sketches) = currentSketch'
                   ELSE projects'[i] = projects[i]
              /\ currentSketch'.status = Local /\ currentSketch'.thumbnail = NoThumbnail
              /\ StatusesOf(projects, currentSketch'.id) = {}
              /\ view' = "CANVAS" /\ currentProject' = pid
              /\ effectPending' /\ history' = << >> /\ canvas' = Blank
         ELSE UNCHANGED <<projects, view, currentProject, currentSketch>>]_vars

\* C23 witness: a sketch was created in the project that already had two, and the
\* editor is open on it
C23_Witness ==
  /\ lastOp = "create" /\ view = "CANVAS"
  /\ Len(projects[1].sketches) = 3
  /\ currentSketch = projects[1].sketches[1]
  /\ projects[1].sketches[2].id = "s1" /\ projects[1].sketches[3].id = "s2"
  /\ projects[2].sketches = << >>

\* ============================================== deferred initialization
\* a step that calls initCanvas
InitCall == mountEffect \/ resizeObserver \/ effectRerun

\* while the container has no area initCanvas creates no context, commits nothing
\* and leaves the surface uninitialized
DeferredWhileEmpty ==
  /\ (InitCall /\ ~containerSized) =>
        UNCHANGED <<isInitialized, context, canvas, history, historyStep, nCommits, loads>>
  /\ ~isInitialized' => (~context' /\ history' = << >> /\ historyStep' = 0 - 1)

\* C24 as stated: initialization with a container of zero area is deferred, and
\* the first later resize notification with non-zero area completes the
\* initialization and commits the seed snapshot
C24_DeferredInit_Original ==
  [][/\ DeferredWhileEmpty
     /\ (resizeObserver /\ containerSized /\ ~isInitialized) =>
           /\ isInitialized' /\ context'
           /\ nCommits' = 1 /\ Len(history') = 1 /\ historyStep' = 0]_vars

\* C24 as amended: initialization with a container of zero area is deferred; the
\* first later resize notification with non-zero area completes the
\* initialization, and commits the blank seed at once when the sketch has no
\* thumbnail; when it has one, the notification commits nothing and starts the
\* load of the thumbnail, whose completion or failure commits the seed
C24_DeferredInit ==
  [][/\ DeferredWhileEmpty
     /\ (resizeObserver /\ containerSized /\ ~isInitialized) =>
           /\ isInitialized' /\ context' /\ canvas' = Blank
           /\ IF currentSketch.thumbnail = NoThumbnail
              THEN /\ nCommits' = 1 /\ nSeeds' = 1
                   /\ history' = <<Blank>> /\ historyStep' = 0
                   /\ loads' = loads
              ELSE /\ UNCHANGED <<history, historyStep, nCommits, nSeeds>>
                   /\ \E i \in 1..Len(loads') : loads'[i].kind = "seed"
     /\ \A i \in 1..Len(loads) :
          (loads[i].kind = "seed" /\ (imgOnload(i) \/ imgOnerror(i))) =>
             /\ nCommits' = nCommits + 1 /\ nSeeds' = 1
             /\ Len(history') >= 1 /\ history'[Len(history')] = canvas']_vars

\* C24 witness: a tap reached the canvas while the surface was not initialized, and
\* an observer notification has since initialized it and committed the blank seed
C24_Witness ==
  /\ lastOp = "resize"
  /\ isInitialized /\ context /\ nInits = 1
  /\ nStrokes = 1 /\ nCommits = 1 /\ nSeeds = 1
  /\ history = <<Blank>> /\ historyStep = 0

\* ================================================ buffer and history
\* C25: whenever no stroke is in progress, no image load is pending and the
\* history is not empty, the buffer is the snapshot stored at the current position
C25_BufferMatchesHistory ==
  (Ready /\ ~isDrawing /\ ~pressed /\ loads = << >> /\ Len(history) >= 1) =>
     /\ Defined(history, historyStep)
     /\ canvas = history[historyStep + 1]

\* ================================================ export and sync
\* the thumbnails the project list holds for the sketch with this id
ThumbnailsOf(projs, id) ==
  {projs[i].sketches[j].thumbnail :
     <<i, j>> \in {q \in (1..Len(projs)) \X (1..(2 + MaxCreated)) :
                     /\ q[2] <= Len(projs[q[1]].sketches)
                     /\ projs[q[1]].sketches[q[2]].id = id}}

\* C26: the thumbnail that a sync's export (onSave) wrote to the project list is
\* still the thumbnail of that sketch once the delayed onSync of the same sync
\* has been applied
C26_NoLostUpdate ==
  [][syncTimeout =>
       ThumbnailsOf(projects', Head(timers).sketchId) = {Head(timers).saved}]_vars

====
